---- MODULE Spec2Model ----
(***************************************************************************)
(* A model of the ops_agent package: the ShellExecutor (shell.py), the     *)
(* four-node orchestration graph built by build_app (graph.py) and the     *)
(* session loop of the command line entry point (cli.py).                  *)
(*                                                                         *)
(* Python strings are TLA+ strings.  The module is ASCII, so the Chinese   *)
(* literals of the source are written as ASCII stand-ins; each stand-in    *)
(* names the literal it replaces.  Python's None is the string "None" in   *)
(* the Optional fields (approval, decision, interrupt_text, ssh fields).   *)
(***************************************************************************)
EXTENDS Integers, Sequences, FiniteSets, TLC

VARIABLES
    once,                     \* cli.py: the --once option was supplied
    non_interactive_decline,  \* graph.py:68, closed over by confirm_node
    config,                   \* the RuntimeConfig handed to ShellExecutor
    host,                     \* what platform.system() / shutil.which see
    env_mode,                 \* ShellExecutor.env_mode
    cli,                      \* position of cli.run
    turn,                     \* number of invocations started by cli.run
    session_history,          \* cli.py:80, the list carried across turns
    pc,                       \* the graph node about to run, END or raised
    user_input, history, candidate, approval, observation,
    continue_flag, decision, interrupt_text,      \* AgentState
    reflects,                 \* Reflect steps executed, this turn
    steps,                    \* graph steps taken by this app.invoke
    hist0,                    \* history as it was when the turn started
    runCalls,                 \* calls of executor.run, this turn
    lastRun,                  \* the last call of executor.run
    raisedBy,                 \* the step whose exception ended the invocation
    ans,                      \* what the operator typed at the last Confirm
    ai,                       \* the model's answer to the last llm.invoke
    environ,                  \* os.environ, the four variables the program reads
    llm,                      \* what get_llm returned or raised
    shown,                    \* the preview rendered by the last Confirm
    executed,                 \* what the last Execute of this invocation did
    returned                  \* history of the last final state app.invoke returned

vars == <<once, non_interactive_decline, config, host, env_mode, cli, turn,
          session_history, pc, user_input, history, candidate, approval,
          observation, continue_flag, decision, interrupt_text, reflects, steps,
          hist0, runCalls, lastRun, raisedBy, ans, ai, environ, llm,
          shown, executed, returned>>

cliVars == <<once, non_interactive_decline, cli, turn>>
execVars == <<config, host, env_mode>>
llmVars == <<environ, llm>>
stateVars == <<user_input, history, candidate, approval, observation,
               continue_flag, decision, interrupt_text>>

----------------------------------------------------------------------------
(* Bounds of the model.                                                    *)

MaxTurns == 2      \* turns of the interactive loop that are explored
MaxReflects == 2   \* Reflect steps of one session that are explored

None == "None"
END == "END"

----------------------------------------------------------------------------
(* shell.py                                                                *)

ExecutionModes == {"dry_run", "local_linux", "wsl", "ssh"}

\* platform.system().lower() and bool(shutil.which("wsl"))
Hosts == { [system |-> "linux",   wsl |-> FALSE],
           [system |-> "windows", wsl |-> TRUE],
           [system |-> "windows", wsl |-> FALSE],
           [system |-> "darwin",  wsl |-> FALSE] }

\* ShellExecutor._detect_env_mode
DetectEnvMode(preferred, h) ==
    IF preferred = "ssh" THEN "ssh"
    ELSE IF preferred = "local_linux" THEN "local_linux"
    ELSE IF preferred = "wsl" THEN (IF h.wsl THEN "wsl" ELSE "dry_run")
    ELSE IF h.system = "linux" THEN "local_linux"
    ELSE IF h.system = "windows" /\ h.wsl THEN "wsl"
    ELSE "dry_run"

\* "[DRY-RUN] 将执行: " + command
DryRunPreview(command) == "[DRY-RUN] will execute: " \o command

\* "[DRY-RUN] SSH信息未配置(ssh_host/ssh_user/ssh_key_path)，将不执行: " + command
SshPreview(command) ==
    "[DRY-RUN] SSH not configured(ssh_host/ssh_user/ssh_key_path), not executing: "
        \o command

\* What the operating system answers to subprocess.run; "" stands for the
\* None a TimeoutExpired carries when nothing was captured.
ProcOutcomes ==
    { [kind |-> "exit", code |-> 0, out |-> "out", err |-> ""],
      [kind |-> "timeout", out |-> "part", err |-> ""],
      [kind |-> "error",   msg |-> "ENOENT"] }

\* What the remote end answers to connect / exec_command.
SshOutcomes ==
    { [kind |-> "exit", code |-> 0, out |-> "out", err |-> ""],
      [kind |-> "error", msg |-> "refused"] }

Result(code, stdout, stderr, spawned, connected) ==
    [code |-> code, stdout |-> stdout, stderr |-> stderr,
     spawned |-> spawned, connected |-> connected]

\* ShellExecutor._exec_process; "命令执行超时" is "command timed out"
ExecProcess(o) ==
    IF o.kind = "exit" THEN Result(o.code, o.out, o.err, TRUE, FALSE)
    ELSE IF o.kind = "timeout"
         THEN Result(124, o.out, IF o.err = "" THEN "command timed out" ELSE o.err,
                     TRUE, FALSE)
    ELSE Result(1, "", "exec error: " \o o.msg, TRUE, FALSE)

\* Variant: any() in place of all()
SshConfiguredAny(cfg) ==
    \/ cfg.ssh_host \notin {None, ""}
    \/ cfg.ssh_user \notin {None, ""}
    \/ cfg.ssh_key_path \notin {None, ""}

\* all([ssh_host, ssh_user, ssh_key_path]): None and "" are falsy
SshConfigured(cfg) ==
    /\ cfg.ssh_host \notin {None, ""}
    /\ cfg.ssh_user \notin {None, ""}
    /\ cfg.ssh_key_path \notin {None, ""}

\* ShellExecutor._exec_ssh
ExecSsh(cfg, command, o) ==
    IF ~SshConfigured(cfg) THEN Result(0, SshPreview(command), "", FALSE, FALSE)
    ELSE IF o.kind = "exit" THEN Result(o.code, o.out, o.err, FALSE, TRUE)
    ELSE Result(1, "", "SSH exec error: " \o o.msg, FALSE, TRUE)

\* The outcomes the environment can give to one call of run
Outcomes(mode, cfg) ==
    IF mode \in {"local_linux", "wsl"} THEN ProcOutcomes
    ELSE IF mode = "ssh" /\ SshConfigured(cfg) THEN SshOutcomes
    ELSE { [kind |-> "none"] }

\* ShellExecutor.run; "不支持的执行模式" is "unsupported mode"
Run(mode, cfg, command, o) ==
    IF mode = "dry_run" THEN Result(0, DryRunPreview(command), "", FALSE, FALSE)
    ELSE IF mode = "local_linux" THEN ExecProcess(o)
    ELSE IF mode = "wsl" THEN ExecProcess(o)
    ELSE IF mode = "ssh" THEN ExecSsh(cfg, command, o)
    ELSE Result(1, "unsupported mode", "", FALSE, FALSE)

----------------------------------------------------------------------------
(* The language model's answers and json.loads (graph.py)                  *)
(*                                                                         *)
(* A response text is [wrapped, body]: body is the JSON-looking part and   *)
(* wrapped says that prose or a code fence surrounds it.  body.t is        *)
(*   "object"  a JSON object, body.v its key/value mapping                 *)
(*   "array"   valid JSON that is not an object, such as [1, 2]            *)
(*   "broken"  braces around text that is not JSON, such as {command: ls}  *)
(*   "prose"   text without braces, such as "not json at all"              *)
(* The prose of a wrapped text holds no brace of its own.                  *)

Obj(v) == [t |-> "object", v |-> v]
Text(wrapped, body) == [kind |-> "text", wrapped |-> wrapped, body |-> body]
Raise(msg) == [kind |-> "raise", msg |-> msg]

\* json.loads(text) returns a value
JsonParses(text) == ~text.wrapped /\ text.body.t \in {"object", "array"}

\* start != -1 and end != -1 and end > start, for text.find("{"), text.rfind("}")
HasBraces(text) == text.body.t \in {"object", "broken"}

\* {"command": "", "rationale": "解析失败", "visual_hint": "", "risk": "unknown"}
ParseFailed ==
    Obj([command |-> "", rationale |-> "parse failed", visual_hint |-> "",
         risk |-> "unknown"])

\* _safe_json_loads
SafeJsonLoads(text) ==
    IF JsonParses(text) THEN text.body
    ELSE IF HasBraces(text) /\ text.body.t = "object" THEN text.body
    ELSE ParseFailed

\* data.get exists only on a dict
IsDict(data) == data.t = "object"

\* data.get(key, default)
Get(data, key, default) == IF key \in DOMAIN data.v THEN data.v[key] ELSE default

\* bool(x) of a decoded JSON value, the value written as its JSON literal:
\* false, null, 0 and "" are falsy, every other value (the string "false"
\* included) is truthy.  The Python default False is the literal false.
PyBool(lit) == lit \notin {"false", "null", "0", "\"\""}

Candidate(command, rationale, visual_hint, risk) ==
    [command |-> command, rationale |-> rationale,
     visual_hint |-> visual_hint, risk |-> risk]

\* The answers the model gives to the analysis prompt
AnalyzeReplies ==
    { Raise("timeout"),
      Text(FALSE, Obj([command |-> "ls", rationale |-> "list", visual_hint |-> "table",
                       risk |-> "low"])),
      Text(TRUE,  Obj([command |-> "rm", risk |-> "high"])),
      Text(FALSE, Obj([rationale |-> "ask", risk |-> "critical"])),
      Text(FALSE, [t |-> "array"]),
      Text(TRUE,  [t |-> "array"]),
      Text(FALSE, [t |-> "broken"]),
      Text(FALSE, [t |-> "prose"]) }

\* The answers the model gives to the reflection prompt
ReflectReplies ==
    { Raise("timeout"),
      Text(FALSE, Obj([continue |-> "true", next_command |-> "ls", rationale |-> "more",
                       visual_hint |-> "table", risk |-> "medium"])),
      Text(TRUE,  Obj([continue |-> "\"false\"", risk |-> "critical"])),
      Text(FALSE, Obj([continue |-> "false", next_command |-> "ls", rationale |-> "done",
                       visual_hint |-> "", risk |-> "low"])),
      Text(FALSE, Obj([next_command |-> "rm", risk |-> "high"])),
      Text(FALSE, [t |-> "array"]),
      Text(FALSE, [t |-> "prose"]) }

----------------------------------------------------------------------------
(* build_app: the four nodes and their wiring (graph.py)                   *)

\* The except branch of analyze_node:
\* "LLM调用失败，使用安全只读命令。错误: {e}", "用列展示负载与时间"
AnalyzeFallback(msg) ==
    Obj([command |-> "uptime",
         rationale |-> "LLM call failed, using a safe read-only command. error: " \o msg,
         visual_hint |-> "columns of load and time", risk |-> "low"])

\* The except branch of reflect_node: "LLM调用失败，建议停止。错误: {e}"
ReflectFallback(msg) ==
    Obj([next_command |-> "",
         rationale |-> "LLM call failed, stopping. error: " \o msg,
         visual_hint |-> "", risk |-> "low"])

\* The data analyze_node holds after its try statement
AnalyzeData(reply) ==
    IF reply.kind = "raise" THEN AnalyzeFallback(reply.msg)
    ELSE SafeJsonLoads(reply)

\* The candidate analyze_node builds from data (lines 100-105)
AnalyzeCandidate(data) ==
    Candidate(Get(data, "command", ""), Get(data, "rationale", ""),
              Get(data, "visual_hint", ""), Get(data, "risk", "low"))

\* reflect_node's try statement: the call, the parse and both data.get calls
\* are inside it, so a raising call and a non-dict value take the except branch
ReflectTryFails(reply) ==
    \/ reply.kind = "raise"
    \/ ~IsDict(SafeJsonLoads(reply))

ReflectErr(reply) ==
    IF reply.kind = "raise" THEN reply.msg ELSE "no attribute get"

ReflectData(reply) ==
    IF ReflectTryFails(reply) THEN ReflectFallback(ReflectErr(reply))
    ELSE SafeJsonLoads(reply)

\* Variant: a failed reflection asks for another round
ReflectContFailContinues(reply) ==
    IF ReflectTryFails(reply) THEN TRUE
    ELSE PyBool(Get(SafeJsonLoads(reply), "continue", "false"))

ReflectCont(reply) ==
    IF ReflectTryFails(reply) THEN FALSE
    ELSE PyBool(Get(SafeJsonLoads(reply), "continue", "false"))

\* Variant: the reflection answer is read under the analysis key
ReflectNextCmdAnalysisKey(reply) ==
    IF ReflectTryFails(reply) THEN ""
    ELSE Get(SafeJsonLoads(reply), "command", "")

ReflectNextCmd(reply) ==
    IF ReflectTryFails(reply) THEN ""
    ELSE Get(SafeJsonLoads(reply), "next_command", "")

\* The candidate reflect_node builds (lines 171-176)
ReflectCandidate(reply) ==
    Candidate(ReflectNextCmd(reply), Get(ReflectData(reply), "rationale", ""),
              Get(ReflectData(reply), "visual_hint", ""),
              Get(ReflectData(reply), "risk", "low"))

\* visual.render_preview_command (visual.py:36-43): the labelled lines of the
\* panel it prints
RenderPreviewCommand(cmd, rationale, risk, visual_hint) ==
    [command |-> cmd, rationale |-> rationale, risk |-> risk,
     visual_hint |-> visual_hint]

\* Nothing has been previewed
NoPreview == [kind |-> "none"]

\* Variant: the rationale is printed on the command line of the panel
ConfirmPreviewSwapped(c) ==
    RenderPreviewCommand(c.rationale, c.command, c.risk, c.visual_hint)

\* confirm_node's call of render_preview_command (graph.py:110-116)
ConfirmPreview(c) ==
    RenderPreviewCommand(c.command, c.rationale, c.risk, c.visual_hint)

\* What the operator types at the confirmation prompt, and
\* input(...).strip().lower() of it
RawAnswers == {" Y ", "yes", "i", "Interrupt", "n", ""}

StripLower(raw) ==
    CASE raw = " Y " -> "y"
      [] raw = "Interrupt" -> "interrupt"
      [] OTHER -> raw

\* Variant: the non-interactive branch approves
ConfirmDecisionAutoApprove(nid, raw) ==
    IF nid THEN "approve"
    ELSE IF StripLower(raw) \in {"y", "yes"} THEN "approve"
    ELSE IF StripLower(raw) \in {"i", "interrupt"} THEN "interrupt"
    ELSE "reject"

\* Variant: only the one-letter answer interrupts
ConfirmDecisionShortInterrupt(nid, raw) ==
    IF nid THEN "reject"
    ELSE IF StripLower(raw) \in {"y", "yes"} THEN "approve"
    ELSE IF StripLower(raw) \in {"i"} THEN "interrupt"
    ELSE "reject"

\* confirm_node's decision (lines 117-131)
ConfirmDecision(nid, raw) ==
    IF nid THEN "reject"
    ELSE IF StripLower(raw) \in {"y", "yes"} THEN "approve"
    ELSE IF StripLower(raw) \in {"i", "interrupt"} THEN "interrupt"
    ELSE "reject"

\* Variant: an interrupt records a refusal
ConfirmApprovalInterruptFalse(nid, raw) ==
    IF nid THEN "False"
    ELSE IF StripLower(raw) \in {"y", "yes"} THEN "True"
    ELSE "False"

\* confirm_node's approval
ConfirmApproval(nid, raw) ==
    IF nid THEN "False"
    ELSE IF StripLower(raw) \in {"y", "yes"} THEN "True"
    ELSE IF StripLower(raw) \in {"i", "interrupt"} THEN None
    ELSE "False"

\* Variant: a rejected candidate is routed to execute
ConfirmRouteRejectExecutes(d) ==
    CASE d = "approve" -> "execute"
      [] d = "reject" -> "execute"
      [] d = "interrupt" -> END

\* add_conditional_edges("confirm", ...): the path map of lines 195-199
ConfirmRoute(d) ==
    CASE d = "approve" -> "execute"
      [] d = "reject" -> "reflect"
      [] d = "interrupt" -> END

\* add_conditional_edges("reflect", ...): the path map of lines 204-208
ReflectRoute(flag) == IF flag THEN "confirm" ELSE END

\* "没有可执行命令"
NoCommandNotice == "no executable command"

\* Variant: the two streams change places
FormatObservationSwapped(r) ==
    "returncode=" \o ToString(r.code) \o "\nstdout=\n" \o r.stderr
        \o "\nstderr=\n" \o r.stdout

\* f"returncode={code}\nstdout=\n{stdout}\nstderr=\n{stderr}"
FormatObservation(r) ==
    "returncode=" \o ToString(r.code) \o "\nstdout=\n" \o r.stdout
        \o "\nstderr=\n" \o r.stderr

----------------------------------------------------------------------------
(* cli.py: what the operator types at ">>> " or gives to --once            *)

RawInputs == {"disk usage", " uptime ", "Exit", " quit"}

\* str.strip() on the texts above
Strip(raw) ==
    CASE raw = " uptime " -> "uptime"
      [] raw = " quit" -> "quit"
      [] OTHER -> raw

\* str.lower() on the stripped texts
Lower(text) ==
    CASE text = "Exit" -> "exit"
      [] OTHER -> text

\* user_input.lower() in ("exit", "quit")
IsExit(text) == Lower(text) \in {"exit", "quit"}

\* The candidate of a fresh session state (cli.py:63, cli.py:97)
BlankCandidate == Candidate("", "", "", "low")

NoRun == [command |-> None, code |-> 0, stdout |-> "", stderr |-> "",
          spawned |-> FALSE, connected |-> FALSE]

NoReply == [kind |-> "none"]

\* The executors the graph is explored with: the configuration and the host
SshNone == [ssh_host |-> None, ssh_user |-> None, ssh_key_path |-> None]

Config(mode, ssh) ==
    [execution_mode |-> mode, ssh_host |-> ssh.ssh_host, ssh_user |-> ssh.ssh_user,
     ssh_key_path |-> ssh.ssh_key_path]

Setups ==
    { [config |-> Config("dry_run", SshNone), host |-> [system |-> "darwin", wsl |-> FALSE]],
      [config |-> Config("dry_run", SshNone), host |-> [system |-> "linux", wsl |-> FALSE]],
      [config |-> Config("ssh", SshNone), host |-> [system |-> "windows", wsl |-> TRUE]] }

----------------------------------------------------------------------------------------------------------------------------------------
(* llm.py and cli._set_deepseek_env: the client and its credentials        *)

DEFAULT_DEEPSEEK_MODEL == "deepseek-chat"
DEFAULT_BASE_URL == "https://api.deepseek.com/v1"

\* bool() of an Optional[str]: None and "" are falsy
Truthy(v) == v \notin {None, ""}

\* Python's a or b
Or(a, b) == IF Truthy(a) THEN a ELSE b

\* os.environ restricted to the variables read; None is "not in os.environ"
Environs ==
    [DEEPSEEK_API_KEY : {None, "", "A"}, OPENAI_API_KEY : {None, "", "B"},
     OPENAI_BASE_URL : {None, "U"}, DEEPSEEK_API_BASE : {None, "D"}]

\* _set_deepseek_env (cli.py:17-25); os.environ.get(k, d) falls back only
\* when k is absent
SetDeepseekEnv(env) ==
    LET e1 == IF env.OPENAI_API_KEY = None /\ Truthy(env.DEEPSEEK_API_KEY)
              THEN [env EXCEPT !.OPENAI_API_KEY = env.DEEPSEEK_API_KEY]
              ELSE env
    IN  IF e1.OPENAI_BASE_URL = None
        THEN [e1 EXCEPT !.OPENAI_BASE_URL =
                 IF e1.DEEPSEEK_API_BASE = None THEN DEFAULT_BASE_URL
                 ELSE e1.DEEPSEEK_API_BASE]
        ELSE e1

NoClient == [kind |-> "none"]

\* Variant: OPENAI_API_KEY is looked up before DEEPSEEK_API_KEY
GetLlmOpenAiFirst(api_key, base_url, env) ==
    LET key == Or(Or(api_key, env.OPENAI_API_KEY), env.DEEPSEEK_API_KEY)
        url == Or(Or(Or(base_url, env.OPENAI_BASE_URL), env.DEEPSEEK_API_BASE),
                  DEFAULT_BASE_URL)
        call == [api_key |-> api_key, base_url |-> base_url]
    IN  IF ~Truthy(key)
        THEN [kind |-> "raise", error |-> "ValueError", call |-> call]
        ELSE [kind |-> "client", model |-> DEFAULT_DEEPSEEK_MODEL,
              openai_api_key |-> key, openai_api_base |-> url, call |-> call]

\* get_llm (llm.py:11-48); call records the arguments it was given
GetLlm(api_key, base_url, env) ==
    LET key == Or(Or(api_key, env.DEEPSEEK_API_KEY), env.OPENAI_API_KEY)
        url == Or(Or(Or(base_url, env.OPENAI_BASE_URL), env.DEEPSEEK_API_BASE),
                  DEFAULT_BASE_URL)
        call == [api_key |-> api_key, base_url |-> base_url]
    IN  IF ~Truthy(key)
        THEN [kind |-> "raise", error |-> "ValueError", call |-> call]
        ELSE [kind |-> "client", model |-> DEFAULT_DEEPSEEK_MODEL,
              openai_api_key |-> key, openai_api_base |-> url, call |-> call]

\* The environment the graph is explored with: only DEEPSEEK_API_KEY is set
SessionEnviron ==
    [DEEPSEEK_API_KEY |-> "A", OPENAI_API_KEY |-> None,
     OPENAI_BASE_URL |-> None, DEEPSEEK_API_BASE |-> None]

----------------
(* The state machine                                                       *)

\* The session of cli.run before its first invocation
IdleSession ==
    /\ turn = 0
    /\ session_history = <<>>
    /\ pc = "idle"
    /\ user_input = ""
    /\ history = <<>>
    /\ candidate = BlankCandidate
    /\ approval = None
    /\ observation = ""
    /\ continue_flag = FALSE
    /\ decision = None
    /\ interrupt_text = None
    /\ reflects = 0
    /\ steps = 0
    /\ hist0 = <<>>
    /\ runCalls = 0
    /\ lastRun = NoRun
    /\ raisedBy = None
    /\ ans = None
    /\ ai = NoReply
    /\ shown = NoPreview
    /\ executed = "no"
    /\ returned = <<>>

\* The nodes build_app adds to the graph (graph.py:185-188)
Nodes == {"analyze", "confirm", "execute", "reflect"}

\* The number of steps app.invoke runs when the caller passes no
\* recursion_limit (cli.py:71, cli.py:107): the library default
RecursionLimit == 25

\* cli.run up to its first prompt: _set_deepseek_env, then build_app
Built ==
    /\ environ = SetDeepseekEnv(SessionEnviron)
    /\ llm = GetLlm(None, None, environ)
    /\ cli = "prompt"

Init ==
    /\ once \in BOOLEAN
    /\ non_interactive_decline = once            \* cli.py:54, bool(once)
    /\ \E s \in Setups :
          /\ config = s.config
          /\ host = s.host
          /\ env_mode = DetectEnvMode(s.config.execution_mode, s.host)
    /\ Built
    /\ IdleSession

\* The session state cli.run builds and hands to app.invoke
Invoke(text, hist) ==
    /\ user_input' = text
    /\ history' = hist
    /\ candidate' = BlankCandidate
    /\ approval' = None
    /\ observation' = ""
    /\ continue_flag' = FALSE
    /\ decision' = None
    /\ interrupt_text' = None
    /\ pc' = "analyze"                            \* set_entry_point("analyze")
    /\ cli' = "invoking"
    /\ turn' = turn + 1
    /\ reflects' = 0
    /\ steps' = 0
    /\ hist0' = hist
    /\ runCalls' = 0
    /\ lastRun' = NoRun
    /\ raisedBy' = None
    /\ ans' = None
    /\ ai' = NoReply
    /\ shown' = NoPreview
    /\ executed' = "no"

\* cli.run, once mode (lines 58-71): one invocation from an empty history
InvokeOnce ==
    /\ once /\ cli = "prompt" /\ turn = 0
    /\ \E raw \in RawInputs : Invoke(Strip(raw), <<>>)
    /\ UNCHANGED <<returned, once, non_interactive_decline, execVars, llmVars, session_history>>

\* cli.run, interactive loop (lines 82-107): a line that is not exit or quit
ReadInput ==
    /\ ~once /\ cli = "prompt" /\ turn < MaxTurns
    /\ Len(session_history) < 2 * MaxReflects
    /\ \E raw \in RawInputs :
          /\ ~IsExit(Strip(raw))
          /\ Invoke(Strip(raw), session_history)
    /\ UNCHANGED <<returned, once, non_interactive_decline, execVars, llmVars, session_history>>

\* cli.run, interactive loop (lines 83-91): exit, quit or end of input
ReadExit ==
    /\ ~once /\ cli = "prompt"
    /\ \E raw \in RawInputs \cup {"EOF"} : raw = "EOF" \/ IsExit(Strip(raw))
    /\ cli' = "exited"
    /\ UNCHANGED <<shown, executed, returned, once, non_interactive_decline, execVars, llmVars, turn, session_history,
                   pc, stateVars, reflects, steps, hist0, runCalls, lastRun, raisedBy,
                   ans, ai>>

\* analyze_node (lines 84-106) and the edge analyze -> confirm
Analyze ==
    /\ pc = "analyze" /\ steps < RecursionLimit
    /\ \E r \in AnalyzeReplies :
          /\ ai' = r
          /\ IF IsDict(AnalyzeData(r))
             THEN /\ candidate' = AnalyzeCandidate(AnalyzeData(r))
                  /\ pc' = "confirm"
                  /\ raisedBy' = raisedBy
             ELSE \* data.get on a value that is not a dict: AttributeError
                  /\ candidate' = candidate
                  /\ pc' = "raised"
                  /\ raisedBy' = "analyze"
    /\ steps' = steps + 1
    /\ UNCHANGED <<shown, executed, returned, cliVars, execVars, llmVars, session_history, user_input, history, approval,
                   observation, continue_flag, decision, interrupt_text, reflects,
                   hist0, runCalls, lastRun, ans>>

\* confirm_node (lines 108-132) and the conditional edges out of confirm
Confirm ==
    /\ pc = "confirm" /\ steps < RecursionLimit
    /\ shown' = ConfirmPreview(candidate)
    /\ IF non_interactive_decline
       THEN /\ ans' = None                        \* no prompt is shown
            /\ approval' = ConfirmApproval(TRUE, None)
            /\ decision' = ConfirmDecision(TRUE, None)
       ELSE \E raw \in RawAnswers :
               /\ ans' = raw
               /\ approval' = ConfirmApproval(FALSE, raw)
               /\ decision' = ConfirmDecision(FALSE, raw)
    /\ pc' = ConfirmRoute(decision')
    /\ steps' = steps + 1
    /\ UNCHANGED <<executed, returned, cliVars, execVars, llmVars, session_history, user_input, history, candidate,
                   observation, continue_flag, interrupt_text, reflects,
                   hist0, runCalls, lastRun, raisedBy, ai>>

\* confirm_node when input() meets the end of the input: EOFError
ConfirmEOF ==
    /\ pc = "confirm" /\ steps < RecursionLimit
    /\ shown' = ConfirmPreview(candidate) /\ ~non_interactive_decline
    /\ ans' = "EOF"
    /\ pc' = "raised"
    /\ raisedBy' = "confirm"
    /\ steps' = steps + 1
    /\ UNCHANGED <<executed, returned, cliVars, execVars, llmVars, session_history, stateVars, reflects,
                   hist0, runCalls, lastRun, ai>>

\* execute_node (lines 134-142) and the edge execute -> reflect
Execute ==
    /\ pc = "execute" /\ steps < RecursionLimit
    /\ IF candidate.command = ""
       THEN /\ observation' = NoCommandNotice
            /\ executed' = "empty"
            /\ UNCHANGED <<runCalls, lastRun>>
       ELSE \E o \in Outcomes(env_mode, config) :
               LET r == Run(env_mode, config, candidate.command, o) IN
               /\ observation' = FormatObservation(r)
               /\ runCalls' = runCalls + 1
               /\ executed' = "ran"
               /\ lastRun' = [command |-> candidate.command, code |-> r.code,
                              stdout |-> r.stdout, stderr |-> r.stderr,
                              spawned |-> r.spawned, connected |-> r.connected]
    /\ pc' = "reflect"
    /\ steps' = steps + 1
    /\ UNCHANGED <<shown, returned, cliVars, execVars, llmVars, session_history, user_input, history, candidate,
                   approval, continue_flag, decision, interrupt_text, reflects,
                   hist0, raisedBy, ans, ai>>

\* Variant: the user record is appended only when history does not hold it yet
AppendedOnce(h, text, obs) ==
    IF \E i \in 1..Len(h) : h[i] = [user |-> text]
    THEN Append(h, [observation |-> obs])
    ELSE Append(Append(h, [user |-> text]), [observation |-> obs])

\* Variant: the observation record is always the empty string
AppendedBlank(h, text, obs) ==
    Append(Append(h, [user |-> text]), [observation |-> ""])

\* Variant: the two records are put in front of the list
AppendedFront(h, text, obs) == <<[user |-> text], [observation |-> obs]>> \o h

\* reflect_node's two appends (lines 146-148)
Appended(h, text, obs) == Append(Append(h, [user |-> text]), [observation |-> obs])

\* reflect_node (lines 144-181) and the conditional edges out of reflect.
\* history is the list object cli.run placed in the session state, so in
\* the interactive loop the appends are made to session_history itself.
Reflect ==
    /\ pc = "reflect" /\ steps < RecursionLimit
    /\ \E r \in ReflectReplies :
          /\ ai' = r
          /\ history' = Appended(history, user_input, observation)
          /\ (~once /\ ReflectCont(r)) => Len(history') < 2 * MaxReflects
          /\ session_history' = IF once THEN session_history ELSE history'
          /\ continue_flag' = ReflectCont(r)
          /\ candidate' = ReflectCandidate(r)
          /\ pc' = ReflectRoute(continue_flag')
    /\ reflects' = reflects + 1
    /\ steps' = steps + 1
    /\ UNCHANGED <<shown, executed, returned, cliVars, execVars, llmVars, user_input, approval, observation, decision,
                   interrupt_text, hist0, runCalls, lastRun, raisedBy, ans>>

\* app.invoke gives up: a step is due after RecursionLimit steps have run
\* and the graph has not reached END (GraphRecursionError)
OutOfSteps ==
    /\ cli = "invoking" /\ pc \in Nodes /\ steps = RecursionLimit
    /\ pc' = "raised"
    /\ raisedBy' = "recursion"
    /\ UNCHANGED <<shown, executed, returned, cliVars, execVars, llmVars, session_history, stateVars, reflects,
                   steps, hist0, runCalls, lastRun, ans, ai>>

\* app.invoke returns (cli.py:71-72 and 107-111)
Return ==
    /\ cli = "invoking" /\ pc = END
    /\ pc' = "idle"
    /\ returned' = history
    /\ session_history' = IF once THEN session_history ELSE history
    /\ cli' = IF once THEN "exited" ELSE "prompt"
    /\ UNCHANGED <<shown, executed, once, non_interactive_decline, execVars, llmVars, turn, stateVars, reflects, steps,
                   hist0, runCalls, lastRun, raisedBy, ans, ai>>

\* app.invoke raises and cli.run catches it (cli.py:73-75 and 112-113)
Caught ==
    /\ cli = "invoking" /\ pc = "raised"
    /\ pc' = "idle"
    /\ cli' = IF once THEN "exited" ELSE "prompt"
    /\ UNCHANGED <<shown, executed, returned, once, non_interactive_decline, execVars, llmVars, turn, session_history,
                   stateVars, reflects, steps, hist0, runCalls, lastRun, raisedBy, ans, ai>>

Next ==
    \/ InvokeOnce
    \/ ReadInput
    \/ ReadExit
    \/ Analyze
    \/ Confirm
    \/ ConfirmEOF
    \/ Execute
    \/ Reflect
    \/ OutOfSteps
    \/ Return
    \/ Caught

Spec == Init /\ [][Next]_vars

----------------------------------------------------------------------------
(* The ShellExecutor on its own: every configuration on every host         *)

\* The --ssh-host, --ssh-user and --ssh-key-path options: absent or given
SshOptions ==
    [ssh_host : {None, "h"}, ssh_user : {None, "u"}, ssh_key_path : {None, "k"}]

\* The command strings handed to run
Commands == {"ls", "rm -rf /tmp/x"}

\* ShellExecutor.__init__ for every RuntimeConfig and host
InitShell ==
    /\ once = FALSE
    /\ non_interactive_decline = FALSE
    /\ \E mode \in ExecutionModes, ssh \in SshOptions : config = Config(mode, ssh)
    /\ host \in Hosts
    /\ env_mode = DetectEnvMode(config.execution_mode, host)
    /\ Built
    /\ IdleSession

\* One call of ShellExecutor.run
ShellRun ==
    /\ \E command \in Commands, o \in Outcomes(env_mode, config) :
          LET r == Run(env_mode, config, command, o) IN
          lastRun' = [command |-> command, code |-> r.code, stdout |-> r.stdout,
                      stderr |-> r.stderr, spawned |-> r.spawned,
                      connected |-> r.connected]
    /\ UNCHANGED <<shown, executed, returned, cliVars, execVars, llmVars, session_history, pc, stateVars, reflects, steps,
                   hist0, runCalls, raisedBy, ans, ai>>

NextShell == ShellRun

SpecShell == InitShell /\ [][NextShell]_vars

----------------------------------------------------------------------------
(* get_llm on its own: every environment and every explicit argument       *)

\* The api_key and base_url arguments: omitted, empty or given
ApiKeyArgs == {None, "", "K"}
BaseUrlArgs == {None, "V"}

\* A process that has not yet read its environment
InitLlm ==
    /\ once = FALSE
    /\ non_interactive_decline = FALSE
    /\ config = Config("dry_run", SshNone)
    /\ host = [system |-> "linux", wsl |-> FALSE]
    /\ env_mode = DetectEnvMode(config.execution_mode, host)
    /\ environ \in Environs
    /\ llm = NoClient
    /\ cli = "start"
    /\ IdleSession

\* cli.run calls _set_deepseek_env (cli.py:40)
SetEnv ==
    /\ cli = "start"
    /\ environ' = SetDeepseekEnv(environ)
    /\ cli' = "env"
    /\ UNCHANGED <<shown, executed, returned, once, non_interactive_decline, turn, execVars, llm,
                   session_history, pc, stateVars, reflects, steps, hist0, runCalls,
                   lastRun, raisedBy, ans, ai>>

\* get_llm is called: by build_app without arguments (graph.py:82), or by
\* another caller with explicit ones
CallGetLlm ==
    /\ cli \in {"start", "env"}
    /\ \E api_key \in ApiKeyArgs, base_url \in BaseUrlArgs :
          llm' = GetLlm(api_key, base_url, environ)
    /\ cli' = IF llm'.kind = "client" THEN "prompt" ELSE "failed"
    /\ UNCHANGED <<shown, executed, returned, once, non_interactive_decline, turn, execVars, environ,
                   session_history, pc, stateVars, reflects, steps, hist0, runCalls,
                   lastRun, raisedBy, ans, ai>>

NextLlm ==
    \/ SetEnv
    \/ CallGetLlm

SpecLlm == InitLlm /\ [][NextLlm]_vars

----------------------------------------------------------------------------
(* Properties                                                              *)

IsPrefix(a, b) == Len(a) <= Len(b) /\ SubSeq(b, 1, Len(a)) = a

Affirmative == {"y", "yes"}
Interrupting == {"i", "interrupt"}

\* C1: the Execute step is entered only from a Confirm step that decided
\* approve, and executor.run is called only in an Execute step entered so.
C1_ExecuteOnlyAfterApprove ==
    [][ /\ pc' = "execute" => (pc = "confirm" /\ decision' = "approve")
        /\ runCalls' > runCalls =>
              (pc = "execute" /\ decision = "approve" /\ approval = "True") ]_vars

C1_Witness == pc = "reflect" /\ runCalls > 0 /\ decision = "approve"

\* C2: an executor configured with execution_mode dry_run answers every run
\* with exit code 0, empty stderr and the dry-run preview of the command,
\* and spawns no process and opens no connection.
C2_DryRunNeverExecutes ==
    (config.execution_mode = "dry_run" /\ runCalls > 0) =>
        /\ lastRun.code = 0
        /\ lastRun.stderr = ""
        /\ lastRun.stdout = DryRunPreview(lastRun.command)
        /\ ~lastRun.spawned
        /\ ~lastRun.connected

\* C3: the graph built for --once declines at every Confirm (decision reject,
\* approval false, no prompt) and neither enters Execute nor calls the executor.
C3_OnceAlwaysDeclines ==
    /\ [](once => non_interactive_decline)
    /\ [][ non_interactive_decline =>
              /\ (pc = "confirm" /\ steps' = steps + 1) =>
                    (decision' = "reject" /\ approval' = "False" /\ ans' = None
                        /\ pc' = "reflect")
              /\ pc' # "execute"
              /\ runCalls' = 0 ]_vars

C3_Witness == once /\ pc = END /\ reflects >= 2 /\ decision = "reject"

\* C4: a Confirm step that completes leaves one of the three decisions, the
\* decision alone fixes the successor (approve: execute, reject: reflect,
\* interrupt: END), nothing runs between END and the return of the invocation,
\* and at the prompt y/yes approve, i/interrupt interrupt, the rest reject.
C4_ConfirmRouting ==
    /\ [][ (pc = "confirm" /\ pc' # "raised") =>
              /\ decision' \in {"approve", "reject", "interrupt"}
              /\ decision' = "approve" => pc' = "execute"
              /\ decision' = "reject" => pc' = "reflect"
              /\ decision' = "interrupt" => pc' = END
              /\ ~non_interactive_decline =>
                    /\ StripLower(ans') \in Affirmative => decision' = "approve"
                    /\ StripLower(ans') \in Interrupting => decision' = "interrupt"
                    /\ StripLower(ans') \notin (Affirmative \cup Interrupting)
                          => decision' = "reject" ]_vars
    /\ [][ pc = END => pc' = "idle" ]_vars

C4_Witness == pc = END /\ decision = "interrupt" /\ ans = "Interrupt"

\* C5: a Reflect step whose outcome is continue = false ends the invocation;
\* one whose outcome is continue = true goes to Confirm with the candidate
\* made of the response's next_command, rationale, visual_hint and risk, and
\* Confirm presents that candidate unchanged.
C5_ReflectRouting ==
    [][ /\ (pc = "reflect" /\ reflects' = reflects + 1) =>
              /\ ~continue_flag' => pc' = END
              /\ continue_flag' =>
                    /\ pc' = "confirm"
                    /\ ai'.kind = "text"
                    /\ ai'.body.t = "object"
                    /\ candidate' =
                          Candidate(Get(ai'.body, "next_command", ""),
                                    Get(ai'.body, "rationale", ""),
                                    Get(ai'.body, "visual_hint", ""),
                                    Get(ai'.body, "risk", "low"))
        /\ pc = "confirm" => candidate' = candidate ]_vars

C5_Witness ==
    pc = "confirm" /\ reflects = 1 /\ continue_flag /\ candidate.command = "ls"
        /\ candidate.risk = "medium"

\* C6: no model outcome in Analyze or Reflect and no shell outcome in Execute
\* ends an invocation by an exception raised from the step.
C6_NoStepAborts == raisedBy \notin {"analyze", "execute", "reflect"}

\* C7 as stated: a turn that reaches the terminal state has appended exactly
\* two records to the history it started from.
C7_TwoRecordsPerTurn == pc = END => Len(history) = Len(hist0) + 2

\* C7 as amended: every Reflect step appends exactly two records, the turn's
\* user input followed by an observation, so a turn has appended twice as many
\* records as it has executed Reflect steps, after the history it started from.
C7_TwoRecordsPerReflect ==
    /\ Len(history) = Len(hist0) + 2 * reflects
    /\ IsPrefix(hist0, history)
    /\ \A i \in 1..reflects :
          /\ history[Len(hist0) + 2 * i - 1] = [user |-> user_input]
          /\ DOMAIN history[Len(hist0) + 2 * i] = {"observation"}

C7_Witness ==
    /\ ~once /\ pc = END /\ reflects = 2
    /\ Len(history) = Len(hist0) + 4
    /\ history[2] # history[4]

\* C8: history only grows at its end: a Reflect step appends the user record
\* and the observation record, no other step changes history, the list the
\* session loop carries only grows, and one Analyze, Confirm(reject), Reflect
\* cycle from an empty history leaves [user = input, observation = ""].
C8_HistoryAppendOnly ==
    /\ [][ /\ IsPrefix(history, history')
           /\ IsPrefix(session_history, session_history')
           /\ pc = "reflect" =>
                 history' = history \o <<[user |-> user_input],
                                         [observation |-> observation]>>
           /\ pc # "reflect" => history' = history ]_vars
    /\ []( (hist0 = <<>> /\ reflects = 1 /\ pc \in {"confirm", END}
               /\ decision = "reject")
           => history = <<[user |-> user_input], [observation |-> ""]>> )

C8_Witness ==
    /\ turn = 2 /\ pc = END /\ reflects = 1 /\ Len(hist0) = 2
    /\ history[1] # history[3]
    /\ history[4] # [observation |-> ""]

\* C9: an interrupt at Confirm ends the invocation with decision interrupt and
\* approval None, leaves history, observation, candidate and continue_flag as
\* they were on entry to that Confirm, runs nothing, and the history it
\* returns is the one the session loop gives to the next turn.
C9_InterruptFrame ==
    [][ /\ (pc = "confirm" /\ ~non_interactive_decline
               /\ StripLower(ans') \in Interrupting) =>
              /\ pc' = END
              /\ decision' = "interrupt"
              /\ approval' = None
              /\ UNCHANGED <<history, session_history, observation, candidate,
                             continue_flag, reflects, runCalls, lastRun>>
        /\ (pc = END /\ decision = "interrupt") =>
              (pc' = "idle" /\ history' = history /\ session_history' = history)
        /\ (turn' = turn + 1 /\ ~once) => history' = session_history ]_vars

C9_Witness ==
    pc = END /\ decision = "interrupt" /\ approval = None /\ reflects = 1
        /\ continue_flag /\ observation # ""

\* C10: candidate.risk is one of low, medium, high or unknown and decision is
\* one of approve, reject, interrupt (None before the first Confirm) in every
\* state.
C10_ClosedEnumerations ==
    /\ candidate.risk \in {"low", "medium", "high", "unknown"}
    /\ decision \in {None, "approve", "reject", "interrupt"}

\* C11: in ssh mode with ssh_host, ssh_user or ssh_key_path absent, every run
\* returns exit code 0, empty stderr and the preview that embeds the command,
\* and opens no connection and spawns no process.
C11_SshNeedsFullConfig ==
    (/\ config.execution_mode = "ssh"
     /\ None \in {config.ssh_host, config.ssh_user, config.ssh_key_path}
     /\ lastRun # NoRun) =>
        /\ lastRun.code = 0
        /\ lastRun.stderr = ""
        /\ lastRun.stdout = SshPreview(lastRun.command)
        /\ ~lastRun.connected
        /\ ~lastRun.spawned

C11_Witness ==
    /\ config.execution_mode = "ssh"
    /\ config.ssh_host # None /\ config.ssh_user # None /\ config.ssh_key_path = None
    /\ lastRun.command = "rm -rf /tmp/x"

C13_OnceReachesEnd == once => raisedBy # "recursion"

\* C14 (as stated): the step taken from Analyze always hands off to Confirm and
\* changes no field other than candidate; when the model call failed the
\* candidate is uptime at risk low with a rationale that embeds the failure.
C14_AnalyzeHandsOffToConfirm ==
    [][(pc = "analyze" /\ pc' # "analyze") =>
          /\ pc' = "confirm"
          /\ UNCHANGED <<user_input, history, observation, decision, approval,
                         continue_flag, interrupt_text>>
          /\ ai'.kind = "raise" =>
                /\ candidate'.command = "uptime"
                /\ candidate'.risk = "low"
                /\ candidate'.rationale =
                      "LLM call failed, using a safe read-only command. error: "
                         \o ai'.msg]_vars

\* C15: a Reflect step whose model call fails still appends its two records,
\* sets continue_flag to false, leaves a candidate with an empty command and a
\* rationale that embeds the failure, and ends the invocation.
C15_ReflectFailureStops ==
    [][(pc = "reflect" /\ reflects' = reflects + 1 /\ ai'.kind = "raise") =>
          /\ history' = history \o <<[user |-> user_input],
                                      [observation |-> observation]>>
          /\ continue_flag' = FALSE
          /\ candidate'.command = ""
          /\ candidate'.rationale = "LLM call failed, stopping. error: " \o ai'.msg
          /\ pc' = END]_vars

C15_Witness ==
    /\ pc = END /\ reflects = 1 /\ ai.kind = "raise"
    /\ decision = "approve" /\ runCalls = 1
    /\ Len(history) = Len(hist0) + 2
    /\ candidate.command = ""

\* C16: Execute with an empty command calls no executor, sets observation to
\* the no-executable-command notice and passes to Reflect; with a non-empty
\* command it calls the executor exactly once with that command and sets
\* observation to returncode=<code>\nstdout=\n<stdout>\nstderr=\n<stderr>.
C16_ExecuteEmptyOrOnce ==
    [][(pc = "execute" /\ steps' = steps + 1) =>
          /\ pc' = "reflect"
          /\ candidate.command = "" =>
                /\ runCalls' = runCalls
                /\ lastRun' = lastRun
                /\ observation' = "no executable command"
          /\ candidate.command # "" =>
                /\ runCalls' = runCalls + 1
                /\ lastRun'.command = candidate.command
                /\ observation' =
                      "returncode=" \o ToString(lastRun'.code)
                         \o "\nstdout=\n" \o lastRun'.stdout
                         \o "\nstderr=\n" \o lastRun'.stderr]_vars

C16_Witness ==
    /\ pc = "reflect" /\ decision = "approve"
    /\ candidate.command = "" /\ candidate.rationale = "parse failed"
    /\ observation = "no executable command"
    /\ runCalls = 0

\* C17 (as stated): every interactive turn starts from the history of the
\* final state returned by the most recent invocation that returned (empty
\* before any has), with every other field at its initial value, and exit
\* or quit ends the loop without invoking the graph.
C17_TurnStartsFromReturned ==
    [][/\ (~once /\ turn' = turn + 1) =>
             /\ history' = returned
             /\ candidate' = BlankCandidate
             /\ approval' = None
             /\ decision' = None
             /\ observation' = ""
             /\ continue_flag' = FALSE
             /\ interrupt_text' = None
       /\ (cli = "prompt" /\ cli' = "exited") =>
             UNCHANGED <<turn, pc, stateVars, session_history>>]_vars

\* C18: the command handed to the executor is the command on the preview of
\* the Confirm step just before it, which the operator approved; Confirm and
\* Execute leave the candidate as it is.
C18_ExecutesWhatWasShown ==
    [][/\ pc \in {"confirm", "execute"} => candidate' = candidate
       /\ runCalls' = runCalls + 1 =>
             /\ lastRun'.command = shown.command
             /\ shown.command = candidate.command
             /\ decision = "approve"]_vars

C18_Witness ==
    /\ pc = "reflect" /\ reflects = 1 /\ runCalls = 1
    /\ shown.command = "ls" /\ lastRun.command = "ls"
    /\ shown.risk = "medium"

\* C19 (as stated): a Reflect step reached from a rejecting Confirm appends
\* the empty string as its observation record.
C19_RejectAppendsEmpty ==
    [][(pc = "reflect" /\ reflects' = reflects + 1 /\ decision = "reject") =>
          history'[Len(history')] = [observation |-> ""]]_vars

\* C19 (as amended): a Reflect step appends the observation the state holds:
\* the empty string when no Execute has run in this invocation, otherwise what
\* the most recent Execute of the invocation left, whether or not the candidate
\* just confirmed was rejected.
C19_AppendsCurrentObservation ==
    [][(pc = "reflect" /\ reflects' = reflects + 1) =>
          LET rec == history'[Len(history')] IN
          /\ rec = [observation |-> observation]
          /\ executed = "no" => rec.observation = ""
          /\ executed = "empty" => rec.observation = "no executable command"
          /\ executed = "ran" =>
                rec.observation =
                    "returncode=" \o ToString(lastRun.code)
                       \o "\nstdout=\n" \o lastRun.stdout
                       \o "\nstderr=\n" \o lastRun.stderr]_vars

C19_Witness ==
    /\ reflects = 2 /\ decision = "reject" /\ executed = "ran"
    /\ history[Len(history)] = [observation |-> observation]
    /\ observation # ""

\* C20 (as stated): while an interactive invocation has ended with an
\* exception, the history the loop carries is the one the turn started from.
C20_FailedTurnKeepsHistory ==
    (~once /\ raisedBy # None) => session_history = hist0

====
